---------------------------- MODULE Spec2Model ----------------------------
(***************************************************************************)
(* AI Document Search Pro (src/app.py): the document store, the match      *)
(* engine and the search orchestrator, with the Streamlit handlers that    *)
(* drive them.                                                             *)
(*                                                                         *)
(* A string is a sequence of characters; a character is a one-character    *)
(* TLA+ string, or a name for a character outside ASCII:                   *)
(*   "I_DOT"   U+0130  capital I with dot above; lower() gives two chars   *)
(*   "C_DOT"   U+0307  combining dot above (second char of that lower())   *)
(*   "LONG_S"  U+017F  long s; equal to s when case is ignored             *)
(*   "E_ACUTE" U+00E9, "A_TILDE" U+00C3, "COPY" U+00A9, "Y_DIAER" U+00FF,  *)
(*   "NBSP" U+00A0, "NUL" U+0000                                           *)
(* Indices of Python slices are 0-based and written as in the source;      *)
(* TLA+ sequences are 1-based, the helpers convert.                        *)
(***************************************************************************)
EXTENDS Integers, Sequences, FiniteSets, TLC

VARIABLES documents,       \* st.session_state.documents: ordered dict, a sequence of [key, doc]
          search_history,  \* st.session_state.search_history
          search_results,  \* st.session_state.search_results
          total_matches,   \* st.session_state.total_matches
          main_search,     \* the value of the text input with key "main_search"
          search_in,       \* the value of the multiselect "Search in specific files:"
          uploaded_files,  \* the value of the file uploader
          confirm_shown,   \* the "Confirm deletion" checkbox is on screen
          tmp_files,       \* names of the temporary files that exist on disk
          call             \* the call of perform_search_enhanced last recorded: arguments and return value

vars == <<documents, search_history, search_results, total_matches, main_search,
          search_in, uploaded_files, confirm_shown, tmp_files, call>>

-----------------------------------------------------------------------------
(* Python built-ins *)

Max(a, b) == IF a >= b THEN a ELSE b

Min(a, b) == IF a <= b THEN a ELSE b

\* An index of a slice, as Python normalises it: negative counts from the end, then clipped.
PyIndex(n, i) == IF i < 0 THEN Max(0, n + i) ELSE Min(n, i)

\* s[i]
PyItem(s, i) == IF i < 0 THEN s[Len(s) + i + 1] ELSE s[i + 1]

\* s[i:j]
PySlice(s, i, j) == SubSeq(s, PyIndex(Len(s), i) + 1, PyIndex(Len(s), j))

\* s[i:]
PySliceFrom(s, i) == SubSeq(s, PyIndex(Len(s), i) + 1, Len(s))

\* "".join(ss), by halves so that long strings do not nest deeply
RECURSIVE JoinRange(_, _, _)
JoinRange(ss, lo, hi) ==
    IF lo > hi THEN <<>>
    ELSE IF lo = hi THEN ss[lo]
    ELSE LET mid == (lo + hi) \div 2
         IN  JoinRange(ss, lo, mid) \o JoinRange(ss, mid + 1, hi)

Join(ss) == JoinRange(ss, 1, Len(ss))

\* s.count(c)
Count(s, c) == Cardinality({i \in 1..Len(s) : s[i] = c})

\* The 1-based index of the k-th occurrence of c in s
NthIndex(s, c, k) ==
    CHOOSE i \in 1..Len(s) : s[i] = c /\ Cardinality({j \in 1..i : s[j] = c}) = k

\* s.split(c): always Count(s, c) + 1 segments
Split(s, c) ==
    LET n == Count(s, c)
        from(k) == IF k = 1 THEN 1 ELSE NthIndex(s, c, k - 1) + 1
        upto(k) == IF k = n + 1 THEN Len(s) ELSE NthIndex(s, c, k) - 1
    IN  [k \in 1..(n + 1) |-> SubSeq(s, from(k), upto(k))]

-----------------------------------------------------------------------------
(* Characters *)

UpperToLower ==
    [c \in {"A", "B", "C", "E", "H", "L", "O", "P", "D", "F"} |->
        CASE c = "A" -> "a" [] c = "B" -> "b" [] c = "C" -> "c" [] c = "E" -> "e"
          [] c = "H" -> "h" [] c = "L" -> "l" [] c = "O" -> "o" [] c = "P" -> "p"
          [] c = "D" -> "d" [] c = "F" -> "f"]

LowerLetters ==
    {"a", "b", "c", "d", "e", "f", "g", "h", "i", "l", "m", "o", "p", "r", "s", "t", "x", "y"}

\* str.isalnum() or "_": what \w matches in a str pattern
WordChars ==
    LowerLetters \cup DOMAIN UpperToLower
        \cup {"0", "1", "_", "I_DOT", "LONG_S", "E_ACUTE", "A_TILDE", "Y_DIAER"}

\* str.isspace(): what str.strip() and str.split() treat as whitespace
Whitespace == {" ", "\n", "\t", "NBSP"}

\* c.lower(): a string, one character long except for U+0130
LowerChar(c) ==
    IF c \in DOMAIN UpperToLower THEN <<UpperToLower[c]>>
    ELSE IF c = "I_DOT" THEN <<"i", "C_DOT">>
    ELSE <<c>>

\* s.lower(): character by character where every character's lowercase is one
\* character, the concatenation of the lowercase strings otherwise
Lower(s) ==
    IF \A i \in 1..Len(s) : Len(LowerChar(s[i])) = 1
    THEN [i \in 1..Len(s) |-> LowerChar(s[i])[1]]
    ELSE Join([i \in 1..Len(s) |-> LowerChar(s[i])])

\* Two characters the regex engine takes for equal under re.IGNORECASE
\* (simple case folding, with the extra pair s / long s)
SameIgnoringCase(c, d) ==
    \/ c = d
    \/ LowerChar(c) = LowerChar(d) /\ Len(LowerChar(c)) = 1
    \/ {c, d} \subseteq {"s", "LONG_S"}
    \/ {c, d} \subseteq {"i", "I_DOT"}

-----------------------------------------------------------------------------
(* The re module, as far as the patterns built by perform_search_enhanced need it *)

\* The characters re.escape puts a backslash before
SpecialChars ==
    {"(", ")", "[", "]", "{", "}", "?", "*", "+", "-", "|", "^", "$", "\\", ".",
     "&", "~", "#", " ", "\t", "\n"}

\* A variant of re_escape that leaves the query as it is: its characters are pattern syntax
re_escape_identity(s) == s

\* re.escape(s)
re_escape(s) ==
    Join([i \in 1..Len(s) |-> IF s[i] \in SpecialChars THEN <<"\\", s[i]>> ELSE <<s[i]>>])

\* r'(?<!\w)' and r'(?!\w)'
NotWordBehind == <<"(", "?", "<", "!", "\\", "w", ")">>

NotWordAhead == <<"(", "?", "!", "\\", "w", ")">>

\* The number of consecutive backslashes that end at index i, not looking below lo
RECURSIVE BackslashRun(_, _, _)
BackslashRun(s, i, lo) ==
    IF i < lo \/ s[i] # "\\" THEN 0 ELSE 1 + BackslashRun(s, i - 1, lo)

\* The nodes of p[lo..hi], a run of literals, escapes and dots that starts at a
\* token; split at a token boundary near the middle
RECURSIVE ParseRange(_, _, _)
ParseRange(p, lo, hi) ==
    IF lo > hi THEN <<>>
    ELSE IF lo = hi THEN
        (IF p[lo] = "\\" THEN <<[op |-> "bad"]>>
         ELSE IF p[lo] = "." THEN <<[op |-> "any"]>>
         ELSE <<[op |-> "lit", ch |-> p[lo]]>>)
    ELSE IF hi = lo + 1 /\ p[lo] = "\\" THEN
        (IF p[hi] \in SpecialChars THEN <<[op |-> "lit", ch |-> p[hi]]>>
         ELSE <<[op |-> "bad"]>>)
    ELSE LET mid == (lo + hi) \div 2
             odd == BackslashRun(p, mid, lo) % 2 = 1
             cut == IF ~odd THEN mid ELSE IF mid > lo THEN mid - 1 ELSE mid + 1
         IN  ParseRange(p, lo, cut) \o ParseRange(p, cut + 1, hi)

\* re.compile(p): the nodes of the pattern; ok is FALSE where Python raises re.error
re_compile(p) ==
    LET nb == Len(NotWordBehind)
        na == Len(NotWordAhead)
        behind == Len(p) >= nb /\ SubSeq(p, 1, nb) = NotWordBehind
        lo == IF behind THEN nb + 1 ELSE 1
        ahead == Len(p) - lo + 1 >= na /\ SubSeq(p, Len(p) - na + 1, Len(p)) = NotWordAhead
        hi == IF ahead THEN Len(p) - na ELSE Len(p)
        nodes == (IF behind THEN <<[op |-> "not_word_behind"]>> ELSE <<>>)
                    \o ParseRange(p, lo, hi)
                    \o (IF ahead THEN <<[op |-> "not_word_ahead"]>> ELSE <<>>)
    IN  [ok |-> \A k \in 1..Len(nodes) : nodes[k].op # "bad", nodes |-> nodes]

Consuming(node) == node.op \in {"lit", "any"}

\* The number of characters a match of the nodes spans
Width(nodes) == Cardinality({k \in 1..Len(nodes) : Consuming(nodes[k])})

\* The nodes match s at the 0-based position i
MatchAt(nodes, s, i, ignorecase) ==
    /\ i + Width(nodes) <= Len(s)
    /\ \A k \in 1..Len(nodes) :
        LET pos == i + Cardinality({j \in 1..(k - 1) : Consuming(nodes[j])})
        IN  CASE nodes[k].op = "lit" ->
                    IF ignorecase THEN SameIgnoringCase(s[pos + 1], nodes[k].ch)
                    ELSE s[pos + 1] = nodes[k].ch
              [] nodes[k].op = "any" -> s[pos + 1] # "\n"
              [] nodes[k].op = "not_word_behind" -> pos = 0 \/ s[pos] \notin WordChars
              [] nodes[k].op = "not_word_ahead" -> pos = Len(s) \/ s[pos + 1] \notin WordChars
              [] OTHER -> FALSE

\* list(re.finditer(pattern, s, flags)) from the 0-based position pos on: the
\* leftmost match, then the scan goes on where it ended
RECURSIVE re_finditer(_, _, _, _)
re_finditer(nodes, s, pos, ignorecase) ==
    LET w == Width(nodes)
        found == {i \in pos..(Len(s) - w) : MatchAt(nodes, s, i, ignorecase)}
    IN  IF found = {} THEN <<>>
        ELSE LET i == CHOOSE m \in found : \A n \in found : m <= n
             IN  <<[start |-> i, end |-> i + w]>>
                    \o re_finditer(nodes, s, IF w = 0 THEN i + 1 ELSE i + w, ignorecase)

-----------------------------------------------------------------------------
(* Stored text.  A text is [fill, tail]: fill times the letter x, then the    *)
(* characters of tail.  Every text of the program has this form with fill = 0 *)
(* except the large files of the ingestion checks, whose bulk is the fill.    *)

Str(s) == [fill |-> 0, tail |-> s]

TextLen(t) == t.fill + Len(t.tail)

\* The characters of a text
Chars(t) == [i \in 1..t.fill |-> "x"] \o t.tail

-----------------------------------------------------------------------------
(* The ordered dict st.session_state.documents *)

Keys(docs) == [i \in 1..Len(docs) |-> docs[i].key]

HasKey(docs, k) == \E i \in 1..Len(docs) : docs[i].key = k

\* docs[k]
Get(docs, k) == docs[CHOOSE i \in 1..Len(docs) : docs[i].key = k].doc

-----------------------------------------------------------------------------
(* perform_search_enhanced *)

MAX_QUERY == 1000

\* A variant of context_start_of without the max: the start may be negative
context_start_unclipped(match_start, context_chars) == match_start - context_chars

\* max(0, match_start - context_chars)
context_start_of(match_start, context_chars) == Max(0, match_start - context_chars)

\* A variant of line_num_of without the + 1
line_num_zero_based(content, match_start) == Count(PySlice(content, 0, match_start), "\n")

\* content[:match_start].count('\n') + 1
line_num_of(content, match_start) == Count(PySlice(content, 0, match_start), "\n") + 1

\* The record appended to file_matches for one match
match_record(content, match, show_context, context_chars) ==
    LET match_start == match.start
        match_end == match.end
        exact_match == PySlice(content, match_start, match_end)
        context_start == context_start_of(match_start, context_chars)
        context_end == Min(Len(content), match_end + context_chars)
        context == PySlice(content, context_start, context_end)
        match_in_context == match_start - context_start
        highlighted ==
            PySlice(context, 0, match_in_context)
                \o <<"*", "*">>
                \o PySlice(context, match_in_context, match_in_context + Len(exact_match))
                \o <<"*", "*">>
                \o PySliceFrom(context, match_in_context + Len(exact_match))
        context_display == IF show_context THEN highlighted ELSE exact_match
        line_num == line_num_of(content, match_start)
        lines == Split(content, "\n")
        line_text == IF line_num <= Len(lines) THEN PyItem(lines, line_num - 1) ELSE <<>>
    IN  [position |-> match_start,
         line |-> line_num,
         line_text |-> line_text,
         exact_match |-> exact_match,
         context |-> context_display,
         match_length |-> Len(exact_match)]

\* r'(?<!\w)' + re.escape(search_text) + r'(?!\w)'
whole_word_pattern(search_text) == NotWordBehind \o re_escape(search_text) \o NotWordAhead

\* The body of the try block for one document: ok is FALSE where re.error is
\* raised, matches are the records of file_matches
search_document(content, search_query, case_sensitive, whole_word, show_context, context_chars) ==
    LET search_text == IF case_sensitive THEN search_query ELSE Lower(search_query)
        content_search == IF case_sensitive THEN content ELSE Lower(content)
        pattern == IF whole_word THEN whole_word_pattern(search_text)
                   ELSE re_escape(search_text)
        compiled == re_compile(pattern)
        matches == re_finditer(compiled.nodes, content_search, 0, ~case_sensitive)
    IN  IF ~compiled.ok THEN [ok |-> FALSE, matches |-> <<>>]
        ELSE [ok |-> TRUE,
              matches |-> [m \in 1..Len(matches) |->
                              match_record(content, matches[m], show_context, context_chars)]]

\* A variant of has_matches that appends a FileResult for every document scanned
has_matches_always(matches) == TRUE

\* if matches:
has_matches(matches) == matches # <<>>

\* A variant of QueryTooLong without the length limit
QueryLimitOff(search_query) == FALSE

\* len(search_query) > 1000
QueryTooLong(search_query) == Len(search_query) > MAX_QUERY

\* A variant of total_after that counts the document, not its matches
total_after_counting_files(total, file_matches) == total + 1

\* total_matches += len(file_matches)
total_after(total, file_matches) == total + Len(file_matches)

\* The loop over search_in from its element i on; fail_at is the element (0: none)
\* at whose document the try block raises an exception other than re.error.
\* scanned lists the documents whose content was read.
RECURSIVE search_loop(_, _, _, _, _, _, _, _, _, _, _, _)
search_loop(docs, search_query, targets, case_sensitive, whole_word, show_context, context_chars, fail_at, i, all_results, total, scanned) ==
    IF i > Len(targets) THEN
        [results |-> all_results, total_matches |-> total, error |-> "", scanned |-> scanned]
    ELSE IF ~HasKey(docs, targets[i]) THEN
        search_loop(docs, search_query, targets, case_sensitive, whole_word, show_context,
                    context_chars, fail_at, i + 1, all_results, total, scanned)
    ELSE
        LET filename == targets[i]
            doc == Get(docs, filename)
            content == Chars(doc.content)
            found == search_document(content, search_query, case_sensitive, whole_word,
                                     show_context, context_chars)
            seen == Append(scanned, filename)
        IN  IF fail_at = i THEN
                [results |-> <<>>, total_matches |-> 0,
                 error |-> "Search error occurred", scanned |-> seen]
            ELSE IF ~found.ok THEN
                [results |-> <<>>, total_matches |-> 0,
                 error |-> "Invalid search pattern", scanned |-> seen]
            ELSE IF has_matches(found.matches) THEN
                search_loop(docs, search_query, targets, case_sensitive, whole_word,
                            show_context, context_chars, fail_at, i + 1,
                            Append(all_results,
                                   [filename |-> filename,
                                    file_type |-> doc.type,
                                    matches |-> found.matches,
                                    match_count |-> Len(found.matches)]),
                            total_after(total, found.matches), seen)
            ELSE
                search_loop(docs, search_query, targets, case_sensitive, whole_word,
                            show_context, context_chars, fail_at, i + 1, all_results, total, seen)

\* perform_search_enhanced(search_query, search_in, case_sensitive, whole_word,
\* show_context, context_chars) over the documents docs
perform_search_enhanced(docs, search_query, targets, case_sensitive, whole_word, show_context, context_chars, fail_at) ==
    IF QueryTooLong(search_query) THEN
        [results |-> <<>>, total_matches |-> 0,
         error |-> "Search query too long (max 1000 characters)", scanned |-> <<>>]
    ELSE search_loop(docs, search_query, targets, case_sensitive, whole_word, show_context,
                     context_chars, fail_at, 1, <<>>, 0, <<>>)

-----------------------------------------------------------------------------
(* The document store: sanitize_filename, validate_file_content,              *)
(* process_uploaded_file.                                                     *)
(*                                                                            *)
(* An uploaded file is [name, data, pdf].  data is the bytes, [fill, tail]:   *)
(* fill times the byte 0x78 (the letter x), then the bytes of tail.  pdf says *)
(* what the PDF library does with the file: installed (pypdf or PyPDF2 can be *)
(* imported), fails (the step that raises: "none", "write" to the temporary   *)
(* file, "open" by PdfReader, "extract" of a page) and pages (what            *)
(* extract_text returns for each page).                                       *)

MAX_NAME == 255

NULL_CHECK == 1024

MAX_SIZE == 50 * 1024 * 1024

None == [none |-> TRUE]

\* os.path.basename(filename), POSIX
basename(filename) ==
    LET slashes == {i \in 1..Len(filename) : filename[i] = "/"}
    IN  IF slashes = {} THEN filename
        ELSE SubSeq(filename, (CHOOSE i \in slashes : \A j \in slashes : j <= i) + 1,
                    Len(filename))

\* sanitize_filename(filename)
sanitize_filename(filename) ==
    LET base == basename(filename)
        safe_name == [i \in 1..Len(base) |->
                        IF base[i] \in WordChars \cup {"-", "."} THEN base[i] ELSE "_"]
    IN  PySlice(safe_name, 0, MAX_NAME)

\* A variant of validate_file_content that looks for a null byte in the whole content
validate_null_anywhere(content) ==
    /\ content.fill + Len(content.tail) <= MAX_SIZE
    /\ ~\E i \in 1..Len(content.tail) : content.tail[i] = 0

\* validate_file_content(content, filename)[0]
validate_file_content(content) ==
    /\ ~(content.fill + Len(content.tail) > MAX_SIZE)
    /\ ~\E i \in 1..Len(content.tail) : content.tail[i] = 0 /\ content.fill + i <= NULL_CHECK

\* chr(n) for the code points of the model
Chr(n) ==
    CASE n = 0 -> "NUL" [] n = 10 -> "\n" [] n = 32 -> " " [] n = 46 -> "."
      [] n = 97 -> "a" [] n = 98 -> "b" [] n = 120 -> "x"
      [] n = 160 -> "NBSP" [] n = 169 -> "COPY" [] n = 195 -> "A_TILDE"
      [] n = 233 -> "E_ACUTE" [] n = 255 -> "Y_DIAER"

\* bytes.decode('utf-8') of b from index i on: one- and two-byte sequences;
\* ok is FALSE where UnicodeDecodeError is raised
RECURSIVE utf8_from(_, _)
utf8_from(b, i) ==
    IF i > Len(b) THEN [ok |-> TRUE, text |-> <<>>]
    ELSE IF b[i] < 128 THEN
        LET rest == utf8_from(b, i + 1)
        IN  [ok |-> rest.ok, text |-> <<Chr(b[i])>> \o rest.text]
    ELSE IF b[i] \in 194..223 /\ i < Len(b) /\ b[i + 1] \in 128..191 THEN
        LET rest == utf8_from(b, i + 2)
        IN  [ok |-> rest.ok, text |-> <<Chr((b[i] - 192) * 64 + (b[i + 1] - 128))>> \o rest.text]
    ELSE [ok |-> FALSE, text |-> <<>>]

\* bytes.decode('latin-1', errors='ignore'): every byte is the character of its value
latin1(b) == [i \in 1..Len(b) |-> Chr(b[i])]

\* The text of a file that is not a PDF: utf-8, or latin-1 when that fails
decode(file_content) ==
    LET u == utf8_from(file_content.tail, 1)
    IN  [fill |-> file_content.fill,
         tail |-> IF u.ok THEN u.text ELSE latin1(file_content.tail)]

\* The text of a PDF: text + "\n\n" for every page whose text is not empty
pdf_text(pages) ==
    Str(Join([i \in 1..Len(pages) |->
                IF pages[i] # <<>> THEN pages[i] \o <<"\n", "\n">> ELSE <<>>]))

\* content.strip() is not empty
not_blank(content) ==
    content.fill > 0 \/ \E i \in 1..Len(content.tail) : content.tail[i] \notin Whitespace

\* len(content.split()): the number of maximal runs of non-whitespace
word_count(content) ==
    (IF content.fill > 0 THEN 1 ELSE 0)
        + Cardinality({i \in 1..Len(content.tail) :
                          /\ content.tail[i] \notin Whitespace
                          /\ IF i = 1 THEN content.fill = 0
                             ELSE content.tail[i - 1] \in Whitespace})

\* The dict returned for a file whose content is not blank
document_record(content, file_type) ==
    [content |-> content,
     type |-> file_type,
     size |-> TextLen(content),
     words |-> word_count(content),
     lines |-> Count(content.tail, "\n") + 1]

\* filename.lower().endswith('.pdf')
is_pdf_name(filename) ==
    LET low == Lower(filename)
    IN  Len(low) >= 4 /\ SubSeq(low, Len(low) - 3, Len(low)) = <<".", "p", "d", "f">>

\* process_uploaded_file(file): result is the dict or None, tmp_left says that the
\* temporary file of this run is still on disk when the function returns
process_uploaded_file(file) ==
    LET filename == sanitize_filename(file.name)
        file_content == file.data
    IN  IF ~validate_file_content(file_content) THEN [result |-> None, tmp_left |-> FALSE]
        ELSE IF is_pdf_name(filename) THEN
            IF ~file.pdf.installed THEN [result |-> None, tmp_left |-> FALSE]
            ELSE IF file.pdf.fails = "write" THEN [result |-> None, tmp_left |-> TRUE]
            ELSE IF file.pdf.fails \in {"open", "extract"} THEN
                [result |-> None, tmp_left |-> FALSE]
            ELSE LET content == pdf_text(file.pdf.pages)
                 IN  [result |-> IF not_blank(content) THEN document_record(content, "pdf")
                                 ELSE None,
                      tmp_left |-> FALSE]
        ELSE LET content == decode(file_content)
             IN  [result |-> IF not_blank(content) THEN document_record(content, "txt")
                             ELSE None,
                  tmp_left |-> FALSE]

\* A variant of dict_set that keeps the earlier entry of the key
dict_set_append(docs, k, v) == Append(docs, [key |-> k, doc |-> v])

\* docs[k] = v: in place when the key is there, at the end when it is new
dict_set(docs, k, v) ==
    IF HasKey(docs, k)
    THEN [i \in 1..Len(docs) |-> IF docs[i].key = k THEN [key |-> k, doc |-> v] ELSE docs[i]]
    ELSE Append(docs, [key |-> k, doc |-> v])

\* del docs[k]
dict_del(docs, k) ==
    LET keep == {i \in 1..Len(docs) : docs[i].key # k}
        nth(n) == CHOOSE i \in keep : Cardinality({j \in keep : j <= i}) = n
    IN  [n \in 1..Cardinality(keep) |-> docs[nth(n)]]

-----------------------------------------------------------------------------
(* Bounds and input sets *)

MaxTextLen == 3

MaxRadius == 2

\* The strings over alphabet of length 1..n
RECURSIVE StringsUpTo(_, _)
StringsUpTo(alphabet, n) ==
    IF n = 0 THEN {}
    ELSE LET shorter == StringsUpTo(alphabet, n - 1)
         IN  {<<c>> : c \in alphabet} \cup shorter
                \cup {Append(t, c) : t \in shorter, c \in alphabet}

\* A string of n letters a
Long(n) == [i \in 1..n |-> "a"]

NoCall == [made |-> FALSE]

\* The session state of a fresh session whose documents are docs
SessionWith(docs) ==
    /\ documents = docs
    /\ search_history = <<>>
    /\ search_results = <<>>
    /\ total_matches = 0
    /\ main_search = <<>>
    /\ search_in = Keys(docs)
    /\ uploaded_files = <<>>
    /\ confirm_shown = FALSE
    /\ tmp_files = {}
    /\ call = NoCall

\* A call of perform_search_enhanced on the current documents, recorded in call
Called(search_query, targets, case_sensitive, whole_word, show_context, context_chars, fail_at) ==
    /\ call' = [made |-> TRUE,
                search_query |-> search_query,
                search_in |-> targets,
                case_sensitive |-> case_sensitive,
                whole_word |-> whole_word,
                show_context |-> show_context,
                context_chars |-> context_chars,
                fail_at |-> fail_at,
                ret |-> perform_search_enhanced(documents, search_query, targets,
                                                case_sensitive, whole_word, show_context,
                                                context_chars, fail_at)]
    /\ UNCHANGED <<documents, search_history, search_results, total_matches, main_search,
                   search_in, uploaded_files, confirm_shown, tmp_files>>

-----------------------------------------------------------------------------
(* The match engine on one document: every text over EngineAlphabet, and the  *)
(* texts of the specification's examples, each searched with every option.    *)

EngineAlphabet == {"a", "A", ".", " ", "\n", "I_DOT"}

EngineQueries ==
    {<<"a">>, <<"A">>, <<".">>, <<"a", "a">>, <<".", "a">>, <<"I_DOT">>}

ExampleCat ==
    [text |-> <<"c", "a", "t", " ", "c", "a", "t", "e", "g", "o", "r", "y", " ", "c", "a", "t">>,
     query |-> <<"c", "a", "t">>]

ExampleHello ==
    [text |-> <<"H", "e", "l", "l", "o", " ", "H", "E", "L", "L", "O", " ",
                "h", "e", "l", "l", "o">>,
     query |-> <<"h", "e", "l", "l", "o">>]

ExampleMatch ==
    [text |-> <<"a", "\n", "b", "\n", "m", "a", "t", "c", "h", "\n">>,
     query |-> <<"m", "a", "t", "c", "h">>]

ExampleLongS ==
    [text |-> <<"LONG_S", "a", "s">>, query |-> <<"s">>]

Examples == {ExampleCat, ExampleHello, ExampleMatch, ExampleLongS}

EngineTexts ==
    {t \in StringsUpTo(EngineAlphabet, MaxTextLen) : not_blank(Str(t))}
        \cup {e.text : e \in Examples}

EngineKey == <<"d", ".", "t", "x", "t">>

\* The context options: a radius with context shown, or no context with the
\* radius the sidebar sets then
NO_CONTEXT_CHARS == 50

ContextOptions ==
    {[show_context |-> TRUE, context_chars |-> r] : r \in 0..MaxRadius}
        \cup {[show_context |-> FALSE, context_chars |-> NO_CONTEXT_CHARS]}

EngineText == Chars(documents[1].doc.content)

InitEngine ==
    \E t \in EngineTexts :
        SessionWith(<<[key |-> EngineKey, doc |-> document_record(Str(t), "txt")]>>)

\* One call for each text: the function is pure, a second call shows nothing new
EngineCall ==
    /\ ~call.made
    /\ \E q \in EngineQueries \cup {e.query : e \in {x \in Examples : x.text = EngineText}},
          cs \in BOOLEAN, ww \in BOOLEAN, c \in ContextOptions :
        Called(q, <<EngineKey>>, cs, ww, c.show_context, c.context_chars, 0)

NextEngine == EngineCall

SpecEngine == InitEngine /\ [][NextEngine]_vars

-----------------------------------------------------------------------------
(* Claims about the match engine, checked under SpecEngine *)

\* The records of the one document of the engine's call
CallMatches == IF call.ret.results = <<>> THEN <<>> ELSE call.ret.results[1].matches

CallPositions == [k \in 1..Len(CallMatches) |-> CallMatches[k].position]

\* The reference scan: the leftmost occurrence of q at or after the cursor, then
\* the cursor moves to its end
RECURSIVE ReferenceScan(_, _, _)
ReferenceScan(text, q, cursor) ==
    LET occ == {i \in cursor..(Len(text) - Len(q)) : SubSeq(text, i + 1, i + Len(q)) = q}
    IN  IF occ = {} THEN <<>>
        ELSE LET i == CHOOSE m \in occ : \A n \in occ : m <= n
             IN  <<i>> \o ReferenceScan(text, q, i + Len(q))

C1_WitnessOverlap ==
    /\ call.made /\ call.case_sensitive /\ ~call.whole_word
    /\ call.search_query = <<"a", "a">>
    /\ EngineText = <<"a", "a", "a">>
    /\ CallPositions = <<0>>

\* The occurrences of q in text compared without case, scanned left to right
\* without overlap
RECURSIVE ReferenceScanNoCase(_, _, _)
ReferenceScanNoCase(text, q, cursor) ==
    LET occ == {i \in cursor..(Len(text) - Len(q)) :
                    Lower(SubSeq(text, i + 1, i + Len(q))) = Lower(q)}
    IN  IF occ = {} THEN <<>>
        ELSE LET i == CHOOSE m \in occ : \A n \in occ : m <= n
             IN  <<i>> \o ReferenceScanNoCase(text, q, i + Len(q))

\* C2: without case_sensitive every record indexes the original text:
\* exact_match is original[position : position + match_length], it keeps the
\* original casing and equals the query when both are lowercased, and the
\* number of records is the number of non-overlapping occurrences of the
\* lowercased query in the text compared without case (Hello HELLO hello
\* searched for hello: Hello, HELLO, hello).
C2_CaseInsensitive ==
    (call.made /\ ~call.case_sensitive /\ ~call.whole_word) =>
        LET q == call.search_query
        IN  /\ \A k \in 1..Len(CallMatches) :
                LET m == CallMatches[k]
                IN  /\ m.exact_match = PySlice(EngineText, m.position, m.position + m.match_length)
                    /\ Lower(m.exact_match) = Lower(q)
            /\ Len(CallMatches) = Len(ReferenceScanNoCase(EngineText, q, 0))
            /\ (EngineText = ExampleHello.text /\ q = ExampleHello.query) =>
                    [k \in 1..Len(CallMatches) |-> CallMatches[k].exact_match]
                        = <<<<"H", "e", "l", "l", "o">>, <<"H", "E", "L", "L", "O">>,
                            <<"h", "e", "l", "l", "o">>>>

\* The query occurs in the text at the 0-based position i
OccursAt(text, q, i, case_sensitive) ==
    /\ i + Len(q) <= Len(text)
    /\ IF case_sensitive THEN SubSeq(text, i + 1, i + Len(q)) = q
       ELSE Lower(SubSeq(text, i + 1, i + Len(q))) = Lower(q)

\* No word character right before i and none right after i + n
WordBoundaries(text, i, n) ==
    /\ i = 0 \/ text[i] \notin WordChars
    /\ i + n = Len(text) \/ text[i + n + 1] \notin WordChars

\* C3: with whole_word a record is returned for an occurrence of the query at
\* [start, end) if and only if the characters next to it on both sides (where
\* there are any) are not word characters and it does not overlap an earlier
\* returned record; cat in "cat category cat" gives the positions 0 and 13.
C3_WholeWord ==
    (call.made /\ call.whole_word) =>
        LET q == call.search_query
            text == EngineText
            returned == {CallPositions[k] : k \in 1..Len(CallPositions)}
        IN  /\ Cardinality(returned) = Len(CallPositions)
            /\ \A i \in returned : OccursAt(text, q, i, call.case_sensitive)
            /\ \A i \in 0..Len(text) :
                OccursAt(text, q, i, call.case_sensitive) =>
                    (i \in returned <=>
                        /\ WordBoundaries(text, i, Len(q))
                        /\ ~\E r \in returned : r < i /\ r + Len(q) > i)
            /\ (text = ExampleCat.text /\ q = ExampleCat.query) => CallPositions = <<0, 13>>

\* C3 for the case-sensitive search alone
C3_WholeWordCaseSensitive == call.made /\ call.case_sensitive => C3_WholeWord


Markers == <<"*", "*">>

\* C4: with context requested and radius R the context of a record at
\* [start, end) is text[max(0, start-R) : start] + '**' + exact_match + '**' +
\* text[end : min(len(text), end+R)]: the window without the markers is at most
\* (end-start)+2R long, its bounds lie inside the text, and it holds the match
\* at the offset start - max(0, start-R); without context requested the context
\* is exact_match alone.
C4_ContextWindow ==
    call.made =>
        \A k \in 1..Len(CallMatches) :
            LET m == CallMatches[k]
                text == EngineText
                R == call.context_chars
                start == m.position
                end == m.position + m.match_length
                from == Max(0, start - R)
                to == Min(Len(text), end + R)
                before == PySlice(text, from, start)
                after == PySlice(text, end, to)
                window == before \o m.exact_match \o after
            IN  IF call.show_context
                THEN /\ m.context = before \o Markers \o m.exact_match \o Markers \o after
                     /\ Len(m.context) - 2 * Len(Markers) <= (end - start) + 2 * R
                     /\ 0 <= from /\ to <= Len(text)
                     /\ PySlice(window, start - from, start - from + m.match_length)
                            = m.exact_match
                ELSE m.context = m.exact_match

\* A match at the start of the text: the window is clipped on the left
C4_Witness ==
    /\ call.made /\ call.show_context /\ call.context_chars = 2
    /\ EngineText = <<"a", ".", "A">>
    /\ call.search_query = <<"a">> /\ call.case_sensitive
    /\ Len(CallMatches) = 1
    /\ CallMatches[1].context = <<"*", "*", "a", "*", "*", ".", "A">>

\* A match with no context requested
C4_WitnessNoContext ==
    /\ call.made /\ ~call.show_context
    /\ Len(CallMatches) = 2
    /\ CallMatches[2].context = <<"a">>
    /\ Len(EngineText) = 3

\* The 0-based bounds [from, to) of the line of text that holds the position
LineBounds(text, position) ==
    LET p == Min(position, Len(text))
        before == {i \in 1..p : text[i] = "\n"}
        after == {i \in (p + 1)..Len(text) : text[i] = "\n"}
    IN  [from |-> IF before = {} THEN 0 ELSE CHOOSE i \in before : \A j \in before : j <= i,
         to |-> IF after = {} THEN Len(text) ELSE (CHOOSE i \in after : \A j \in after : i <= j) - 1]

\* C5: line is 1 plus the number of newlines in text[0:position], line_text is
\* the newline-free line of the text that holds the match start, which is
\* element line-1 of the text split on newline; line never exceeds the number
\* of those elements, so the fallback to the empty string is never taken
\* ("a\nb\nmatch\n" searched for match: line 3).
C5_LineNumber ==
    call.made =>
        \A k \in 1..Len(CallMatches) :
            LET m == CallMatches[k]
                text == EngineText
                segments == Split(text, "\n")
                bounds == LineBounds(text, m.position)
            IN  /\ m.line = 1 + Cardinality({i \in 1..Min(m.position, Len(text)) : text[i] = "\n"})
                /\ m.line <= Len(segments)
                /\ m.line_text = segments[m.line]
                /\ m.line_text = SubSeq(text, bounds.from + 1, bounds.to)
                /\ \A i \in 1..Len(m.line_text) : m.line_text[i] # "\n"
                /\ (text = ExampleMatch.text /\ call.search_query = ExampleMatch.query) =>
                        m.line = 3

\* A match right after a newline, on the last line, which has no newline at its end
C5_Witness ==
    /\ call.made
    /\ EngineText = <<"A", "\n", "a">>
    /\ call.search_query = <<"a">> /\ call.case_sensitive
    /\ Len(CallMatches) = 1
    /\ CallMatches[1].line = 2
    /\ CallMatches[1].line_text = <<"a">>

-----------------------------------------------------------------------------
(* The orchestrator: perform_search_enhanced called with any list of targets  *)
(* on any corpus of up to two documents, with queries around the length       *)
(* limit, and with an exception raised in the try block at any target.        *)

MaxTargets == 2

KeyA == <<"a", ".", "t", "x", "t">>

KeyB == <<"b", ".", "t", "x", "t">>

KeyAbsent == <<"z", ".", "t", "x", "t">>

SearchTexts == {<<"a">>, <<"b", "a", "a">>}

SearchQueries == {<<"a">>, <<"b">>, Long(MAX_QUERY), Long(MAX_QUERY + 1)}

\* Every corpus over the keys a.txt and b.txt, in either order
SearchCorpora ==
    LET one(k) == {<<[key |-> k, doc |-> document_record(Str(t), "txt")]>> : t \in SearchTexts}
    IN  {<<>>} \cup one(KeyA) \cup one(KeyB)
            \cup {x \o y : x \in one(KeyA), y \in one(KeyB)}
            \cup {y \o x : x \in one(KeyA), y \in one(KeyB)}

\* The lists of targets of length 0..n
RECURSIVE TargetLists(_)
TargetLists(n) ==
    IF n = 0 THEN {<<>>}
    ELSE LET shorter == TargetLists(n - 1)
         IN  shorter \cup {Append(t, k) : t \in shorter, k \in {KeyA, KeyB, KeyAbsent}}

InitSearch == \E docs \in SearchCorpora : SessionWith(docs)

\* The two flags, each set in one of the two combinations
SearchOptions ==
    {[case_sensitive |-> TRUE, whole_word |-> FALSE],
     [case_sensitive |-> FALSE, whole_word |-> TRUE]}

SearchCall ==
    /\ ~call.made
    /\ \E q \in SearchQueries, targets \in TargetLists(MaxTargets), o \in SearchOptions :
        \E fail_at \in 0..Len(targets) :
            Called(q, targets, o.case_sensitive, o.whole_word, FALSE, NO_CONTEXT_CHARS, fail_at)

NextSearch == SearchCall

SpecSearch == InitSearch /\ [][NextSearch]_vars

\* C6: a query of more than 1000 characters is rejected before any document is
\* read (empty results, total 0, an error), a query of exactly 1000 characters
\* is not; and whatever the outcome, an error comes with empty results and
\* total 0, also when earlier documents had matches before the failure.
C6_QueryLimit ==
    call.made =>
        /\ Len(call.search_query) > 1000 =>
            /\ call.ret.results = <<>>
            /\ call.ret.total_matches = 0
            /\ call.ret.error # ""
            /\ call.ret.scanned = <<>>
        /\ (Len(call.search_query) = 1000 /\ call.fail_at = 0) =>
            /\ call.ret.error = ""
            /\ \A i \in 1..Len(call.search_in) :
                HasKey(documents, call.search_in[i]) =>
                    \E j \in 1..Len(call.ret.scanned) : call.ret.scanned[j] = call.search_in[i]
        /\ call.ret.error # "" => (call.ret.results = <<>> /\ call.ret.total_matches = 0)

\* A query of 1001 characters, rejected with both documents in the corpus
C6_Witness ==
    /\ call.made
    /\ Len(call.search_query) = 1001
    /\ Len(documents) = 2
    /\ call.search_in = <<KeyA, KeyB>>
    /\ call.ret.error # ""

\* A failure at the second document, after the first one had matches
C6_WitnessLate ==
    /\ call.made
    /\ call.search_query = <<"a">>
    /\ call.search_in = <<KeyA, KeyB>>
    /\ Len(call.ret.scanned) = 2
    /\ call.fail_at = 2
    /\ call.ret.error # "" /\ call.ret.results = <<>>

\* The records the engine finds in the document under key k for the call's query
FoundIn(k) ==
    search_document(Chars(Get(documents, k).content), call.search_query, call.case_sensitive,
                    call.whole_word, call.show_context, call.context_chars).matches

\* The targets that are in the corpus and have a match, in the order of the list
RECURSIVE Included(_, _)
Included(targets, i) ==
    IF i > Len(targets) THEN <<>>
    ELSE (IF HasKey(documents, targets[i]) /\ FoundIn(targets[i]) # <<>>
          THEN <<targets[i]>> ELSE <<>>) \o Included(targets, i + 1)

\* The results of a successful search: one FileResult for each target that is in
\* the corpus and has a match, in the order of the target list
ResultsFollowTargets ==
    (call.made /\ call.ret.error = "") =>
        LET want == Included(call.search_in, 1)
            got == call.ret.results
        IN  /\ Len(got) = Len(want)
            /\ \A k \in 1..Len(got) :
                /\ got[k].filename = want[k]
                /\ got[k].matches = FoundIn(want[k])
                /\ got[k].matches # <<>>

\* C7 as stated: the results follow the targets, and with an empty corpus any
\* query returns an empty list, total 0 and an empty error.
C7_Original ==
    /\ ResultsFollowTargets
    /\ (call.made /\ documents = <<>>) =>
        (call.ret.results = <<>> /\ call.ret.total_matches = 0 /\ call.ret.error = "")

\* C7, amended: the result list of a successful search is, in target-list
\* order, one FileResult for each target that is in the corpus and has a match
\* (absent identifiers are skipped without error, documents without a match do
\* not appear); with an empty corpus any query of at most 1000 characters
\* returns an empty list, total 0 and an empty error, and a longer one the
\* error of the length check.
C7_ResultsFollowTargets ==
    /\ ResultsFollowTargets
    /\ (call.made /\ documents = <<>>) =>
        /\ call.ret.results = <<>> /\ call.ret.total_matches = 0
        /\ call.ret.error = "" <=> Len(call.search_query) <= 1000

\* An absent target, then a document without a match, then one with a match
C7_Witness ==
    /\ call.made /\ call.ret.error = ""
    /\ call.search_query = <<"b">> /\ call.case_sensitive
    /\ Len(documents) = 2
    /\ Chars(Get(documents, KeyA).content) = <<"a">>
    /\ call.search_in = <<KeyAbsent, KeyA>>
    /\ call.ret.results = <<>>

\* Targets in an order other than the corpus order, both with matches
C7_WitnessOrder ==
    /\ call.made /\ call.ret.error = ""
    /\ Keys(documents) = <<KeyA, KeyB>>
    /\ call.search_in = <<KeyB, KeyA>>
    /\ Len(call.ret.results) = 2
    /\ call.ret.results[1].filename = KeyB

-----------------------------------------------------------------------------
(* The Streamlit handlers.  Every interaction reruns the script; the widgets  *)
(* follow Streamlit's rules:                                                  *)
(*  - a button is TRUE only in the run its click starts, so the "Confirm      *)
(*    deletion" checkbox, created inside the Clear button's branch, is on     *)
(*    screen only until the next interaction, and unticked whenever the       *)
(*    branch runs;                                                            *)
(*  - the multiselect has no key: it is a new widget, with every file         *)
(*    selected, whenever its options change;                                  *)
(*  - the widgets of tab 2 exist only while there are documents.              *)

MaxBatch == 2

NoPdf == [installed |-> TRUE, fails |-> "none", pages |-> <<>>]

\* The loop of the upload handler over uploaded_files from its element i on:
\* docs is st.session_state.documents so far, tmp the temporary files on disk
RECURSIVE process_files(_, _, _, _)
process_files(files, i, docs, tmp) ==
    IF i > Len(files) THEN [documents |-> docs, tmp_files |-> tmp]
    ELSE LET file == files[i]
             run == process_uploaded_file(file)
             left == IF run.tmp_left THEN tmp \cup {file.name} ELSE tmp
         IN  IF run.result # None
             THEN process_files(files, i + 1,
                                dict_set(docs, sanitize_filename(file.name), run.result), left)
             ELSE process_files(files, i + 1, docs, left)

\* What the rerun after a change of the documents leaves of the widgets of tab 2
WidgetsAfter(docs) ==
    /\ search_in' = IF Keys(docs) = Keys(documents) THEN search_in ELSE Keys(docs)
    /\ main_search' = IF docs = <<>> THEN <<>> ELSE main_search

\* The user adds a file to the file uploader
AddFile(files) ==
    /\ Len(uploaded_files) < MaxBatch
    /\ \E f \in files : uploaded_files' = Append(uploaded_files, f)
    /\ confirm_shown' = FALSE
    /\ UNCHANGED <<documents, search_history, search_results, total_matches, main_search,
                   search_in, tmp_files, call>>

\* The user takes the file uploader's files away
DropFiles ==
    /\ uploaded_files # <<>>
    /\ uploaded_files' = <<>>
    /\ confirm_shown' = FALSE
    /\ UNCHANGED <<documents, search_history, search_results, total_matches, main_search,
                   search_in, tmp_files, call>>

\* The button "Process Uploaded Files"
ProcessUploadedFiles ==
    /\ uploaded_files # <<>>
    /\ LET done == process_files(uploaded_files, 1, documents, tmp_files)
       IN  /\ documents' = done.documents
           /\ tmp_files' = done.tmp_files
           /\ WidgetsAfter(done.documents)
    /\ confirm_shown' = FALSE
    /\ UNCHANGED <<search_history, search_results, total_matches, uploaded_files, call>>

\* The button "Remove" of a loaded document
Remove ==
    \E i \in 1..Len(documents) :
        /\ documents' = dict_del(documents, documents[i].key)
        /\ WidgetsAfter(dict_del(documents, documents[i].key))
        /\ confirm_shown' = FALSE
        /\ UNCHANGED <<search_history, search_results, total_matches, uploaded_files,
                       tmp_files, call>>

\* The value of the "Confirm deletion" checkbox in the run a click on Clear
\* starts: the checkbox is created in that run, or was left unticked
ConfirmDeletion == FALSE

\* The button "Clear All Data"
ClearAllData ==
    /\ IF ConfirmDeletion
       THEN /\ documents' = <<>>
            /\ search_history' = <<>>
            /\ search_results' = <<>>
            /\ total_matches' = 0
            /\ search_in' = <<>>
            /\ main_search' = <<>>
            /\ confirm_shown' = FALSE
       ELSE /\ confirm_shown' = TRUE
            /\ UNCHANGED <<documents, search_history, search_results, total_matches,
                           search_in, main_search>>
    /\ ~confirm_shown
    /\ UNCHANGED <<uploaded_files, tmp_files, call>>

\* The user ticks "Confirm deletion": the rerun finds the button FALSE and the
\* checkbox is gone
TickConfirm ==
    /\ confirm_shown
    /\ confirm_shown' = FALSE
    /\ UNCHANGED <<documents, search_history, search_results, total_matches, main_search,
                   search_in, uploaded_files, tmp_files, call>>

\* The user types into the text input "Enter search query:"
EditQuery(queries) ==
    /\ documents # <<>>
    /\ \E q \in queries \cup {<<>>} : q # main_search /\ main_search' = q
    /\ confirm_shown' = FALSE
    /\ UNCHANGED <<documents, search_history, search_results, total_matches, search_in,
                   uploaded_files, tmp_files, call>>

\* The subsequences of s
RECURSIVE SubLists(_)
SubLists(s) ==
    IF s = <<>> THEN {<<>>}
    ELSE LET rest == SubLists(Tail(s))
         IN  rest \cup {<<Head(s)>> \o r : r \in rest}

\* The user changes the selection of "Search in specific files:"
SelectFiles ==
    /\ documents # <<>>
    /\ \E sel \in SubLists(Keys(documents)) : sel # search_in /\ search_in' = sel
    /\ confirm_shown' = FALSE
    /\ UNCHANGED <<documents, search_history, search_results, total_matches, main_search,
                   uploaded_files, tmp_files, call>>

HISTORY_MAX == 10

\* search_history after a successful search for search_query
history_after(history, search_query) ==
    IF \E i \in 1..Len(history) : history[i] = search_query THEN history
    ELSE PySlice(<<search_query>> \o history, 0, HISTORY_MAX)

\* selected_files = list(st.session_state.documents.keys())
selected_files(docs, selection) == Keys(docs)

\* The button "Search", with the sidebar's options and the exception (if any)
\* of the try block as inputs.  call records the call whose results are stored.
Search(options) ==
    /\ documents # <<>>
    /\ main_search # <<>>
    /\ \E o \in options :
        LET targets == selected_files(documents, search_in)
        IN  \E fail_at \in 0..Len(targets) :
            LET ret == perform_search_enhanced(documents, main_search, targets,
                                               o.case_sensitive, o.whole_word,
                                               o.show_context, o.context_chars, fail_at)
            IN  IF ret.error # ""
                THEN UNCHANGED <<search_results, total_matches, search_history, call>>
                ELSE /\ search_results' = ret.results
                     /\ total_matches' = ret.total_matches
                     /\ search_history' = history_after(search_history, main_search)
                     /\ call' = [made |-> TRUE,
                                 search_query |-> main_search,
                                 search_in |-> targets,
                                 case_sensitive |-> o.case_sensitive,
                                 whole_word |-> o.whole_word,
                                 show_context |-> o.show_context,
                                 context_chars |-> o.context_chars,
                                 fail_at |-> fail_at,
                                 ret |-> ret]
    /\ confirm_shown' = FALSE
    /\ UNCHANGED <<documents, main_search, search_in, uploaded_files, tmp_files>>

-----------------------------------------------------------------------------
(* The session: upload, remove, clear, edit the query, select files, search *)

TextFile(name, bytes) == [name |-> name, data |-> [fill |-> 0, tail |-> bytes], pdf |-> NoPdf]

\* a.txt with the text "a", a.txt with the text "b a", b.txt with the text "a a"
SessionFiles ==
    {TextFile(KeyA, <<97>>), TextFile(KeyA, <<98, 32, 97>>), TextFile(KeyB, <<97, 32, 97>>)}

SessionQueries == {<<"a">>, Long(MAX_QUERY + 1)}

DEFAULT_CONTEXT_CHARS == 200

\* The sidebar as it is at first, and with every checkbox changed
SidebarOptions ==
    {[case_sensitive |-> FALSE, whole_word |-> FALSE,
      show_context |-> TRUE, context_chars |-> DEFAULT_CONTEXT_CHARS],
     [case_sensitive |-> TRUE, whole_word |-> TRUE,
      show_context |-> FALSE, context_chars |-> NO_CONTEXT_CHARS]}

Init == SessionWith(<<>>)

Next ==
    \/ AddFile(SessionFiles)
    \/ DropFiles
    \/ ProcessUploadedFiles
    \/ Remove
    \/ ClearAllData
    \/ TickConfirm
    \/ EditQuery(SessionQueries)
    \/ SelectFiles
    \/ Search(SidebarOptions)

Spec == Init /\ [][Next]_vars


\* The sum of match_count over the FileResults of results whose file is in selection
RECURSIVE MatchCountIn(_, _)
MatchCountIn(results, selection) ==
    IF results = <<>> THEN 0
    ELSE (IF \E j \in 1..Len(selection) : selection[j] = Head(results).filename
          THEN Head(results).match_count ELSE 0)
            + MatchCountIn(Tail(results), selection)

\* C8: a search from the UI runs over the files selected in "Search in specific
\* files": whenever Search stores results, every stored FileResult is of a
\* selected file and total_matches counts the matches of selected files only.
C8_SelectedSubset ==
    [][(search_results' # search_results \/ total_matches' # total_matches) =>
            /\ \A i \in 1..Len(search_results') :
                \E j \in 1..Len(search_in) : search_in[j] = search_results'[i].filename
            /\ total_matches' = MatchCountIn(search_results', search_in)]_vars

-----------------------------------------------------------------------------
(* Ingestion: files at the limits of validate_file_content, files whose names *)
(* sanitize to the same key, a name longer than 255 characters, PDFs.         *)

NameAB == <<"a", " ", "b", ".", "t", "x", "t">>

NamePathAB == <<"d", "/", "a", "_", "b", ".", "t", "x", "t">>

NameA_B == <<"a", "_", "b", ".", "t", "x", "t">>

NameLong == Long(MAX_NAME + 5) \o <<".", "p", "d", "f">>

NamePdf == <<"p", ".", "p", "d", "f">>

BigFile(name, fill, bytes) == [name |-> name, data |-> [fill |-> fill, tail |-> bytes], pdf |-> NoPdf]

PdfFile(name, pages) ==
    [name |-> name, data |-> [fill |-> 0, tail |-> <<97>>],
     pdf |-> [installed |-> TRUE, fails |-> "none", pages |-> pages]]

\* "a b.txt" with the text "a b"
FileWords == TextFile(NameAB, <<97, 32, 98>>)

\* "d/a_b.txt" with e acute in utf-8, a newline and a
FileUtf8 == TextFile(NamePathAB, <<195, 169, 10, 97>>)

\* "a_b.txt" of 50MB + 1 byte
FileOversized == BigFile(NameA_B, MAX_SIZE, <<97>>)

\* "a_b.txt" whose byte 1024 is null
FileNullInside == BigFile(NameA_B, NULL_CHECK - 1, <<0, 97>>)

\* "a_b.txt" whose byte 1025 is null, and whose last byte is not utf-8
FileNullBeyond == BigFile(NameA_B, NULL_CHECK, <<0, 255>>)

\* "a b.txt" of a space and a newline
FileBlank == TextFile(NameAB, <<32, 10>>)

\* A file of exactly 50MB whose name has 264 characters
FileExactly50MB == BigFile(NameLong, MAX_SIZE - 1, <<98>>)

\* "p.pdf" with three pages, the second without text
FilePdf == PdfFile(NamePdf, <<<<"a">>, <<>>, <<"b", " ", "b">>>>)

\* "p.pdf" whose pages give no text or a space
FilePdfBlank == PdfFile(NamePdf, <<<<>>, <<" ">>>>)

IngestFiles ==
    {FileWords, FileUtf8, FileOversized, FileNullInside, FileNullBeyond, FileBlank,
     FileExactly50MB, FilePdf, FilePdfBlank}

InitIngest == SessionWith(<<>>)

NextIngest ==
    \/ AddFile(IngestFiles)
    \/ DropFiles
    \/ ProcessUploadedFiles
    \/ Remove

SpecIngest == InitIngest /\ [][NextIngest]_vars

\* A step of the upload handler that changed the documents (Remove alone
\* makes them fewer)
Ingested == documents' # documents /\ Len(documents') >= Len(documents)

FileKey(file) == sanitize_filename(file.name)

\* The text the file with the key k decodes or extracts to
FileText(file, k) ==
    IF is_pdf_name(k) THEN pdf_text(file.pdf.pages) ELSE decode(file.data)

\* The reasons to reject a file with the key k and the text t: larger than 50MB,
\* a null byte in the first 1024 bytes, a PDF that cannot be read, a text of
\* whitespace only
Rejected(file, k, t) ==
    \/ file.data.fill + Len(file.data.tail) > 50 * 1024 * 1024
    \/ \E i \in 1..Len(file.data.tail) : file.data.tail[i] = 0 /\ file.data.fill + i <= 1024
    \/ is_pdf_name(k) /\ (~file.pdf.installed \/ file.pdf.fails # "none")
    \/ t.fill = 0 /\ \A i \in 1..Len(t.tail) : t.tail[i] \in Whitespace

\* The number of whitespace-separated words: the ends of the runs of other characters
WordsOf(text) ==
    LET n == Len(text.tail)
        ends == {i \in 1..n : /\ text.tail[i] \notin Whitespace
                               /\ (i = n \/ text.tail[i + 1] \in Whitespace)}
    IN  Cardinality(ends)
            + (IF text.fill > 0 /\ (n = 0 \/ text.tail[1] \in Whitespace) THEN 1 ELSE 0)

\* The record is complete: the counts are those of its content
Complete(doc) ==
    /\ doc.size = doc.content.fill + Len(doc.content.tail)
    /\ doc.words = WordsOf(doc.content)
    /\ doc.lines = 1 + Cardinality({i \in 1..Len(doc.content.tail) : doc.content.tail[i] = "\n"})
    /\ doc.type \in {"txt", "pdf"}

\* The keys of the files of the upload
UploadKeys ==
    LET n == Len(uploaded_files)
    IN  SubSeq([i \in 1..n |-> FileKey(uploaded_files[i])], 1, n)

\* The texts of the files of the upload that are not rejected, None for the others
UploadTexts(keys) ==
    LET n == Len(uploaded_files)
        texts == [i \in 1..n |->
                    LET t == FileText(uploaded_files[i], keys[i])
                    IN  IF Rejected(uploaded_files[i], keys[i], t) THEN None ELSE t]
    IN  SubSeq(texts, 1, n)

\* The files of the upload whose key is k and that are not rejected
Kept(keys, texts, k) == {i \in 1..Len(keys) : keys[i] = k /\ texts[i] # None}

\* The entry under k is in docs2 as it is in docs1
SameEntry(docs1, docs2, k) ==
    /\ HasKey(docs1, k) <=> HasKey(docs2, k)
    /\ HasKey(docs1, k) => Get(docs1, k) = Get(docs2, k)

\* C9: ingestion is all-or-nothing per file.  A file larger than 50MB, with a
\* null byte in its first 1024 bytes, or whose text is whitespace only changes
\* nothing: a key whose files are all rejected keeps its document, and no
\* document gets the text of a rejected file; a file of exactly 50MB passes;
\* every document stored is a complete record whose size, words and lines are
\* the character, word and line counts of its content.
C9_AllOrNothing ==
    [][Ingested =>
        LET keys == UploadKeys
            texts == UploadTexts(keys)
        IN  /\ \A i \in 1..Len(keys) :
                LET kept == Kept(keys, texts, keys[i])
                IN  IF kept = {} THEN SameEntry(documents, documents', keys[i])
                    ELSE /\ HasKey(documents', keys[i])
                         /\ \E j \in kept : Get(documents', keys[i]).content = texts[j]
            /\ \A n \in 1..Len(documents') :
                /\ Complete(documents'[n].doc)
                /\ \/ \E m \in 1..Len(documents) : documents[m] = documents'[n]
                   \/ \E j \in Kept(keys, texts, documents'[n].key) :
                        documents'[n].doc.content = texts[j]]_vars

\* The 50MB file is stored next to the document that an oversized file and a
\* file with a null byte, uploaded under its key, have left intact
C9_Witness ==
    /\ uploaded_files = <<FileExactly50MB, FileOversized>>
    /\ Len(documents) = 2
    /\ documents[1].key = NameA_B
    /\ documents[1].doc.content = Str(<<"a", " ", "b">>)
    /\ documents[1].doc.words = 2
    /\ documents[2].doc.size = MAX_SIZE

\* A file with a null byte beyond the first 1024 bytes is stored
C9_WitnessNull ==
    /\ Len(documents) = 1
    /\ documents[1].doc.size = NULL_CHECK + 2
    /\ documents[1].doc.content.tail = <<"NUL", "Y_DIAER">>
    /\ uploaded_files = <<FileNullBeyond, FileNullInside>>

\* The corpus keys are sanitized identifiers, and there is one record for each
SanitizedKeys(docs) ==
    \A i \in 1..Len(docs) :
        /\ \A j \in 1..Len(docs) : docs[i].key = docs[j].key => i = j
        /\ sanitize_filename(docs[i].key) = docs[i].key
        /\ \A n \in 1..Len(docs[i].key) : docs[i].key[n] \notin {"/", "\\"}
        /\ Len(docs[i].key) <= 255

\* C10: corpus keys are sanitized identifiers and collisions are last write
\* wins: there is at most one record under a key, after an upload it is the
\* whole record of the last accepted file whose sanitized name is the key, and
\* a key equals sanitize_filename of itself, has no path separator and at most
\* 255 characters.
C10_LastWriteWins ==
    /\ SanitizedKeys(documents)
    /\ [][documents' # documents =>
            /\ SanitizedKeys(documents')
            /\ Ingested =>
                LET keys == UploadKeys
                    texts == UploadTexts(keys)
                IN  \A i \in 1..Len(keys) :
                        LET k == keys[i]
                            kept == Kept(keys, texts, k)
                            last == CHOOSE j \in kept : \A n \in kept : n <= j
                        IN  kept # {} =>
                                /\ HasKey(documents', k)
                                /\ Get(documents', k).content = texts[last]
                                /\ Get(documents', k).type
                                    = (IF is_pdf_name(k) THEN "pdf" ELSE "txt")
                                /\ Complete(Get(documents', k))]_vars

\* Two files with different names and one key, uploaded together: the record
\* is the second file's
C10_Witness ==
    /\ uploaded_files = <<FileWords, FileUtf8>>
    /\ Len(documents) = 1
    /\ documents[1].key = NameA_B
    /\ documents[1].doc.content = Str(<<"E_ACUTE", "\n", "a">>)
    /\ documents[1].doc.lines = 2

\* The key of the file with the long name is cut to 255 characters
C10_WitnessLong ==
    /\ Len(documents) = 2
    /\ documents[2].key = Long(255)
    /\ documents[1].key = NamePdf

-----------------------------------------------------------------------------
(* PDF extraction: PDFs whose steps fail, one at a time, next to PDFs that    *)
(* are read and a text file.                                                  *)

NameUpperPdf == <<"q", ".", "P", "D", "F">>

\* A PDF of one page with the text "a", whose step fails raises an exception
FailingPdf(name, installed, fails) ==
    [name |-> name, data |-> [fill |-> 0, tail |-> <<97>>],
     pdf |-> [installed |-> installed, fails |-> fails, pages |-> <<<<"a">>>>]]

PdfSteps == {"none", "write", "open", "extract"}

PdfFiles ==
    {FailingPdf(NamePdf, TRUE, fails) : fails \in PdfSteps}
        \cup {FailingPdf(NameUpperPdf, TRUE, "none"), FailingPdf(NameUpperPdf, TRUE, "write"),
              FailingPdf(NameUpperPdf, FALSE, "none"), FileWords}

InitPdf == SessionWith(<<>>)

NextPdf ==
    \/ AddFile(PdfFiles)
    \/ DropFiles
    \/ ProcessUploadedFiles
    \/ Remove

SpecPdf == InitPdf /\ [][NextPdf]_vars

\* C11: the temporary file created for PDF extraction is removed on all exit
\* paths: whichever step of process_uploaded_file fails (the write to the
\* temporary file, the opening of the reader, the extraction of a page) or none,
\* no temporary file created by the run exists when it returns, so no step
\* leaves a temporary file on disk that was not there before.
C11_TempFileRemoved == [][tmp_files' \subseteq tmp_files]_vars

\* C11 for the uploads in which no write to the temporary file fails
C11_TempFileRemovedUnlessWriteFails ==
    [][(\A i \in 1..Len(uploaded_files) : uploaded_files[i].pdf.fails # "write")
        => tmp_files' \subseteq tmp_files]_vars

-----------------------------------------------------------------------------
(* The stored results and their report: uploads, removals, clearing, edits    *)
(* of the query and searches, for two queries that match and one too long.    *)

ResultQueries == {<<"a">>, <<"b">>, Long(MAX_QUERY + 1)}

InitResults == SessionWith(<<>>)

NextResults ==
    \/ AddFile(SessionFiles)
    \/ ProcessUploadedFiles
    \/ Remove
    \/ ClearAllData
    \/ TickConfirm
    \/ EditQuery(ResultQueries)
    \/ Search(SidebarOptions)

SpecResults == InitResults /\ [][NextResults]_vars

\* The results and the download are on screen: tab 2 has documents, and there
\* are stored results with matches
results_displayed == documents # <<>> /\ search_results # <<>> /\ total_matches > 0

\* s.replace('**', ''), from the character i on
RECURSIVE remove_markers(_, _)
remove_markers(s, i) ==
    IF i > Len(s) THEN <<>>
    ELSE IF i < Len(s) /\ s[i] = "*" /\ s[i + 1] = "*" THEN remove_markers(s, i + 2)
    ELSE <<s[i]>> \o remove_markers(s, i + 1)

FILE_NAME_CHARS == 50

\* f"ai_search_{search_query[:50].replace(' ', '_')}.txt"
download_name(search_query) ==
    LET cut == PySlice(search_query, 0, FILE_NAME_CHARS)
    IN  <<"a", "i", "_", "s", "e", "a", "r", "c", "h", "_">>
            \o [i \in 1..Len(cut) |-> IF cut[i] = " " THEN "_" ELSE cut[i]]
            \o <<".", "t", "x", "t">>

\* results_text: the values the report's lines are formatted from, in the
\* order of the lines
results_text(search_query, results, total) ==
    [query |-> search_query,
     total_matches |-> total,
     files_searched |-> Len(results),
     files |-> [r \in 1..Len(results) |->
        [file |-> results[r].filename,
         matches |-> results[r].match_count,
         entries |-> [m \in 1..Len(results[r].matches) |->
            [line |-> results[r].matches[m].line,
             position |-> results[r].matches[m].position,
             exact |-> results[r].matches[m].exact_match,
             context |-> remove_markers(results[r].matches[m].context, 1),
             length |-> results[r].matches[m].match_length]]]]]

\* The download button: the report and its file name, from the text input's
\* value and the stored results
download ==
    [data |-> results_text(main_search, search_results, total_matches),
     file_name |-> download_name(main_search)]

\* The report lists every match of every stored FileResult with its line,
\* position, exact text and length
ReportListsEveryMatch ==
    LET files == download.data.files
    IN  /\ Len(files) = Len(search_results)
        /\ \A r \in 1..Len(search_results) :
            /\ files[r].file = search_results[r].filename
            /\ Len(files[r].entries) = Len(search_results[r].matches)
            /\ \A m \in 1..Len(search_results[r].matches) :
                LET match == search_results[r].matches[m]
                    entry == files[r].entries[m]
                IN  /\ entry.line = match.line
                    /\ entry.position = match.position
                    /\ entry.exact = match.exact_match
                    /\ entry.length = match.match_length

\* C12: the report is built from the stored results and the query that
\* produced them: whenever the download is on screen, the query in the report's
\* header and in the file name is the query of the last successful search,
\* whose results the report lists, and the report lists every match of every
\* FileResult with its line, position, exact text and length.
C12_ReportQuery ==
    results_displayed =>
        /\ call.made
        /\ download.data.query = call.search_query
        /\ download.file_name = download_name(call.search_query)
        /\ ReportListsEveryMatch

\* C12 without the query: the report lists every match of the stored results
C12_ReportComplete == results_displayed => call.made /\ ReportListsEveryMatch

\* sum(r['match_count'] for r in results)
RECURSIVE SumOfCounts(_)
SumOfCounts(results) ==
    IF results = <<>> THEN 0 ELSE Head(results).match_count + SumOfCounts(Tail(results))

\* Every FileResult counts its matches, and total is the sum of the counts
TotalIsSum(results, total) ==
    /\ \A r \in 1..Len(results) : results[r].match_count = Len(results[r].matches)
    /\ total = SumOfCounts(results)

\* C13: the total match count is the aggregate of the per-document counts:
\* every FileResult has match_count equal to the length of its matches, the
\* total perform_search_enhanced returns is the sum of match_count over the
\* FileResults it returns, and after any sequence of uploads, searches that
\* succeed or fail, removals and clearing, total_matches in the session state
\* is the sum of match_count over the stored search_results.
C13_TotalIsSum ==
    /\ call.made => TotalIsSum(call.ret.results, call.ret.total_matches)
    /\ TotalIsSum(search_results, total_matches)

\* Stored results of two documents, with one match and with two, after one of
\* the documents was removed and a query that is too long was typed
C13_Witness ==
    /\ Len(search_results) = 2
    /\ search_results[1].match_count = 1
    /\ search_results[2].match_count = 2
    /\ total_matches = 3
    /\ Len(documents) = 1
    /\ Len(main_search) > MAX_QUERY
    /\ call.made /\ call.ret.total_matches = 3

\* The stored results are results for the documents as they are now: each
\* FileResult names a document of the corpus, and each record's exact_match is
\* at its position in that document's content
ResultsMatchCorpus ==
    \A r \in 1..Len(search_results) :
        LET filename == search_results[r].filename
        IN  /\ HasKey(documents, filename)
            /\ \A m \in 1..Len(search_results[r].matches) :
                LET match == search_results[r].matches[m]
                    content == Chars(Get(documents, filename).content)
                IN  PySlice(content, match.position, match.position + match.match_length)
                        = match.exact_match

\* C14: the stored search results stay consistent with the current corpus:
\* after any sequence of uploads, searches, removals and clearing, every
\* FileResult of the stored search_results names a document that is in the
\* corpus, and every record's exact_match is the text at its position in that
\* document's current content.
C14_ResultsMatchCorpus == ResultsMatchCorpus

\* C14 for the step that stores results: they are consistent with the corpus
\* searched
C14_ConsistentWhenStored == [][search_results' # search_results => ResultsMatchCorpus']_vars

\* C14 for the results on screen and in the download alone
C14_DisplayedResultsMatchCorpus == results_displayed => ResultsMatchCorpus

=============================================================================
